---- MODULE Spec2Model ----
(***************************************************************************)
(* Model of classifier_free_guidance_pytorch.py: the guidance decorator    *)
(* (classifier_free_guidance and its closure inner), the Perceiver         *)
(* resampler's forward pass and the key masking of the two attention       *)
(* modules.  Tensors are modelled by what the claims read of them: their   *)
(* length along the sequence / latent axis, the order of their rows and,   *)
(* for the mean pool, small integer entries.                               *)
(***************************************************************************)
EXTENDS Integers, Sequences, FiniteSets, TLC

(***************************************************************************)
(* Bounds of the model.                                                    *)
(***************************************************************************)
MaxArgs == 2          \* longest parameter list of a wrapped callable
MaxScale == 3         \* guidance scales range over MinScale .. MaxScale
MaxLogit == 2         \* the wrapped function returns 0 .. MaxLogit
MaxInvocations == 2   \* invocations of one guided function
MaxLatents == 2       \* num_latents ranges over 1 .. MaxLatents
MaxMeanPooled == 2    \* num_latents_mean_pooled ranges over 0 .. MaxMeanPooled
MaxDepth == 2         \* depth ranges over 0 .. MaxDepth
MaxSeqLen == 2        \* max_seq_len ranges over 1 .. MaxSeqLen; inputs are one longer at most
MaxNullKv == 2        \* num_null_kv ranges over 0 .. MaxNullKv
MaxKv == 3            \* real key / value positions of the attention module
MaxQ == 2             \* query positions of the attention module

MinScale == 0 - 1

(***************************************************************************)
(* Constants of the program.                                               *)
(***************************************************************************)
COND_DROP_KEY_NAME == "__cond_drop_prob"

None == "None"

VARIABLES
    \* ---- classifier_free_guidance (wrap time)
    wpc,          \* "idle" | "done"
    wfn,          \* the signature of the callable being wrapped
    wkey,         \* cond_drop_prob_keyname
    wscale,       \* cond_scale
    woutcome,     \* what the call of classifier_free_guidance produced
    wfncalls,     \* calls of the wrapped callable made during wrapping
    \* ---- inner (one guided function and its invocations)
    fn,           \* closure: the wrapped function, drop probability -> outcome
    cond_scale,   \* closure: the guidance scale
    keyname,      \* closure: cond_drop_prob_keyname
    pc,           \* position in inner
    kwargs,       \* the caller's keyword arguments of this invocation
    calls,        \* keyword arguments of each call of fn in this invocation
    logits,       \* line 46
    null_logits,  \* line 51
    result,       \* the returned value
    raised,       \* the exception that left inner, or None
    invocations,  \* invocations started so far
    \* ---- PerceiverResampler
    cfg,          \* constructor arguments: num_latents, num_latents_mean_pooled, depth, max_seq_len
    x,            \* forward's x, one batch element: its entries along the sequence axis
    mask,         \* forward's mask: [given, bits]
    rpc,          \* position in PerceiverResampler.forward
    x_with_pos,   \* line 157
    meanpooled_seq, \* line 162: <<sum, count>> of the pooled entries
    latents,      \* the latent set, one row per latent
    layer,        \* refinement layers run so far
    attn_kv,      \* kv_input of the last PerceiverAttention.forward (line 92)
    attn_mask,    \* its padded mask (line 105): [given, bits]
    rerror,       \* the exception that left forward, or None
    \* ---- Attention
    num_null_kv,  \* constructor argument
    a_pc,         \* "idle" | "done"
    a_nq,         \* rows of x
    a_context,    \* [given, len]: the context argument
    a_mask,       \* forward's mask: [given, bits]
    a_k,          \* the keys after line 221
    a_padded,     \* the mask after line 232: [given, bits]
    a_attn        \* key positions with weight in the softmax of line 236

wvars == <<wpc, wfn, wkey, wscale, woutcome, wfncalls>>
gvars == <<fn, cond_scale, keyname, pc, kwargs, calls, logits, null_logits,
           result, raised, invocations>>
rvars == <<cfg, x, mask, rpc, x_with_pos, meanpooled_seq, latents, layer,
           attn_kv, attn_mask, rerror>>
avars == <<num_null_kv, a_pc, a_nq, a_context, a_mask, a_k, a_padded, a_attn>>
vars == <<wvars, gvars, rvars, avars>>

(***************************************************************************)
(* Wrap time: classifier_free_guidance, lines 31-54.                       *)
(***************************************************************************)
ParamNames == {"x", COND_DROP_KEY_NAME, "cond_drop_prob"}

InSeq(e, s) == \E i \in 1..Len(s) : s[i] = e

NoRepeat(s) == \A i, j \in 1..Len(s) : i # j => s[i] # s[j]

ArgLists == UNION {{s \in [1..n -> ParamNames] : NoRepeat(s)} : n \in 0..MaxArgs}

\* A callable as inspect sees it: positional parameter names, the name of the
\* *args and **kwargs parameters (or None), and whether defaults are declared.
FnSigs == [args : ArgLists, varargs : {None, "args"}, keywords : {None, "kwargs"},
           defaults : {None, "defaults"}]

KeyNames == {COND_DROP_KEY_NAME, "cond_drop_prob"}

Scales == MinScale..MaxScale

\* inspect.getargspec returns the named tuple
\* ArgSpec(args, varargs, keywords, defaults): four fields.
getargspec(f) == <<f.args, f.varargs, f.keywords, f.defaults>>

\* The tuple assignment "fn_args, _ = ..." of line 38: two targets take a
\* sequence of exactly two values, any other length raises ValueError.
UnpackPair(t) ==
    IF Len(t) = 2 THEN [ok |-> TRUE, first |-> t[1]]
    ELSE [ok |-> FALSE, first |-> <<>>]

Closure(f, cs, key) == [sig |-> f, cond_scale |-> cs, keyname |-> key]

\* A mutation of classifier_free_guidance: the signature check is left to call time.
ClassifierFreeGuidanceUnchecked(f, cs, key) ==
    [status |-> "returned", error |-> None, inner |-> {Closure(f, cs, key)}]

\* classifier_free_guidance(fn, cond_scale, cond_drop_prob_keyname): the
\* outcome of the call.  inner holds the returned guided function, if any.
ClassifierFreeGuidance(f, cs, key) ==
    LET up == UnpackPair(getargspec(f)) IN
    IF ~up.ok
    THEN [status |-> "raised", error |-> "ValueError", inner |-> {}]
    ELSE IF ~InSeq(key, up.first)
    THEN [status |-> "raised", error |-> "AssertionError", inner |-> {}]
    ELSE [status |-> "returned", error |-> None, inner |-> {Closure(f, cs, key)}]

NoSig == [args |-> <<>>, varargs |-> None, keywords |-> None, defaults |-> None]
NoOutcome == [status |-> "none", error |-> None, inner |-> {}]

WInit ==
    /\ wpc = "idle"
    /\ wfn = NoSig
    /\ wkey = COND_DROP_KEY_NAME
    /\ wscale = MaxScale
    /\ woutcome = NoOutcome
    /\ wfncalls = 0

\* One call of classifier_free_guidance.  Nothing in lines 38-54 calls fn:
\* the body of inner only runs when the guided function is invoked.
Wrap(f, cs, key) ==
    /\ wpc = "idle"
    /\ wpc' = "done"
    /\ wfn' = f
    /\ wkey' = key
    /\ wscale' = cs
    /\ woutcome' = ClassifierFreeGuidance(f, cs, key)
    /\ wfncalls' = wfncalls
    /\ UNCHANGED <<gvars, rvars, avars>>

(***************************************************************************)
(* Call time: inner, lines 41-54.                                          *)
(***************************************************************************)
DropProbs == {0, 1}

LogitVals == 0..MaxLogit

\* What one call of the wrapped function does: return a value or raise.
Outcomes == {[raises |-> FALSE, value |-> v, error |-> None] : v \in LogitVals}
            \cup {[raises |-> TRUE, value |-> 0, error |-> "FnError"]}

\* The wrapped function, by the drop probability it is called with.
FnBehaviours == [DropProbs -> Outcomes]

\* The caller's keyword arguments: any of the reserved key and one other key.
KwargSets(key) ==
    UNION {[ks -> DropProbs] : ks \in SUBSET {key, "y"}}

\* {**kwargs, key: v}
WithKey(kw, key, v) ==
    [k \in (DOMAIN kw) \cup {key} |-> IF k = key THEN v ELSE kw[k]]

\* line 43, 44
KwargsWithoutCondDropout(kw, key) == WithKey(kw, key, 0)
KwargsWithCondDropout(kw, key) == WithKey(kw, key, 1)

\* A mutation of line 48: the short circuit taken only below unity.
TakesShortCircuitStrict(cs) == cs < 1

\* line 48
TakesShortCircuit(cs) == cs <= 1

\* A mutation of line 52: interpolation from logits instead of null_logits.
CombineSwapped(l, nl, cs) == l + (nl - l) * cs

\* line 52
Combine(l, nl, cs) == nl + (l - nl) * cs

NoKwargs == [k \in {} |-> 0]

GInit ==
    /\ fn \in FnBehaviours
    /\ cond_scale \in Scales
    /\ keyname = COND_DROP_KEY_NAME
    /\ pc = "ready"
    /\ kwargs = NoKwargs
    /\ calls = <<>>
    /\ logits = 0
    /\ null_logits = 0
    /\ result = 0
    /\ raised = None
    /\ invocations = 0

\* The guided function is invoked: inner(*args, **kwargs).
Invoke(kw) ==
    /\ pc \in {"ready", "returned", "raised"}
    /\ invocations < MaxInvocations
    /\ invocations' = invocations + 1
    /\ kwargs' = kw
    /\ calls' = <<>>
    /\ logits' = 0
    /\ null_logits' = 0
    /\ result' = 0
    /\ raised' = None
    /\ pc' = "call_keep"
    /\ UNCHANGED <<fn, cond_scale, keyname, wvars, rvars, avars>>

\* lines 43-46: logits = fn(*args, **kwargs_without_cond_dropout)
CallKeep ==
    /\ pc = "call_keep"
    /\ LET kw == KwargsWithoutCondDropout(kwargs, keyname)
           out == fn[kw[keyname]]
       IN /\ calls' = Append(calls, kw)
          /\ IF out.raises
             THEN /\ raised' = out.error
                  /\ pc' = "raised"
                  /\ UNCHANGED logits
             ELSE /\ logits' = out.value
                  /\ pc' = "branch"
                  /\ UNCHANGED raised
    /\ UNCHANGED <<fn, cond_scale, keyname, kwargs, null_logits, result,
                   invocations, wvars, rvars, avars>>

\* lines 48-49: return logits
ShortCircuit ==
    /\ pc = "branch"
    /\ TakesShortCircuit(cond_scale)
    /\ result' = logits
    /\ pc' = "returned"
    /\ UNCHANGED <<fn, cond_scale, keyname, kwargs, calls, logits, null_logits,
                   raised, invocations, wvars, rvars, avars>>

\* A mutation of line 51: an exception of the second call is caught and the
\* unconditioned output taken to be 0.
CallDropSwallows ==
    /\ pc = "branch"
    /\ ~TakesShortCircuit(cond_scale)
    /\ LET kw == KwargsWithCondDropout(kwargs, keyname)
           out == fn[kw[keyname]]
       IN /\ calls' = Append(calls, kw)
          /\ null_logits' = out.value
          /\ pc' = "combine"
          /\ UNCHANGED raised
    /\ UNCHANGED <<fn, cond_scale, keyname, kwargs, logits, result,
                   invocations, wvars, rvars, avars>>

\* line 51: null_logits = fn(*args, **kwargs_with_cond_dropout)
CallDrop ==
    /\ pc = "branch"
    /\ ~TakesShortCircuit(cond_scale)
    /\ LET kw == KwargsWithCondDropout(kwargs, keyname)
           out == fn[kw[keyname]]
       IN /\ calls' = Append(calls, kw)
          /\ IF out.raises
             THEN /\ raised' = out.error
                  /\ pc' = "raised"
                  /\ UNCHANGED null_logits
             ELSE /\ null_logits' = out.value
                  /\ pc' = "combine"
                  /\ UNCHANGED raised
    /\ UNCHANGED <<fn, cond_scale, keyname, kwargs, logits, result,
                   invocations, wvars, rvars, avars>>

\* line 52: return null_logits + (logits - null_logits) * cond_scale
ReturnCombined ==
    /\ pc = "combine"
    /\ result' = Combine(logits, null_logits, cond_scale)
    /\ pc' = "returned"
    /\ UNCHANGED <<fn, cond_scale, keyname, kwargs, calls, logits, null_logits,
                   raised, invocations, wvars, rvars, avars>>

GIdle ==
    /\ fn = [d \in DropProbs |-> [raises |-> FALSE, value |-> 0, error |-> None]]
    /\ cond_scale = MaxScale
    /\ keyname = COND_DROP_KEY_NAME
    /\ pc = "ready"
    /\ kwargs = NoKwargs
    /\ calls = <<>>
    /\ logits = 0
    /\ null_logits = 0
    /\ result = 0
    /\ raised = None
    /\ invocations = 0

(***************************************************************************)
(* Tensor helpers shared by the attention modules.                         *)
(***************************************************************************)
NoMask == [given |-> FALSE, bits |-> <<>>]

Masks(n) == {NoMask} \cup {[given |-> TRUE, bits |-> b] : b \in [1..n -> BOOLEAN]}

Repeat(v, n) == [i \in 1..n |-> v]

\* F.pad(mask, (left, right), value = True) along the last axis.
FPad(bits, left, right) == Repeat(TRUE, left) \o bits \o Repeat(TRUE, right)

\* sim.masked_fill(~mask, max_neg_value): the key positions filled.
MaskedFill(m) == IF m.given THEN {j \in 1..Len(m.bits) : ~m.bits[j]} ELSE {}

\* softmax over the key axis of similarities whose filled positions hold the
\* most negative finite value: the key positions that keep weight.  A row
\* filled everywhere is constant, and its softmax is uniform over all keys.
SoftmaxSupport(nkeys, filled) ==
    IF filled = 1..nkeys THEN 1..nkeys ELSE (1..nkeys) \ filled

(***************************************************************************)
(* PerceiverAttention.forward, lines 83-116.                               *)
(***************************************************************************)
\* A mutation of line 105: the mask padded on the left.
PerceiverPadMaskLeft(m, nlatents) ==
    IF m.given THEN [given |-> TRUE, bits |-> FPad(m.bits, nlatents, 0)] ELSE NoMask

\* lines 103-105: mask = F.pad(mask, (0, latents.shape[-2]), value = True)
PerceiverPadMask(m, nlatents) ==
    IF m.given THEN [given |-> TRUE, bits |-> FPad(m.bits, 0, nlatents)] ELSE NoMask

\* line 92: kv_input = torch.cat((x, latents), dim = -2), by the origin of each row.
PerceiverKvInput(xs, lat) ==
    [j \in 1..Len(xs) |-> <<"seq", xs[j].pos>>]
        \o [i \in 1..Len(lat) |-> <<"latent", i>>]

\* The whole forward: the output has one row per query, that is per latent
\* (lines 89, 101, 114); a row is modelled by the origins of the kv rows it
\* takes weight from.
PerceiverAttentionForward(xs, lat, m) ==
    LET kv == PerceiverKvInput(xs, lat)
        padded == PerceiverPadMask(m, Len(lat))
        support == SoftmaxSupport(Len(kv), MaskedFill(padded))
    IN [kv_input |-> kv,
        mask |-> padded,
        out |-> [i \in 1..Len(lat) |-> {kv[j] : j \in support}]]

(***************************************************************************)
(* PerceiverResampler, lines 118-170.                                      *)
(***************************************************************************)
Configs == [num_latents : 1..MaxLatents,
            num_latents_mean_pooled : 0..MaxMeanPooled,
            depth : 0..MaxDepth,
            max_seq_len : 1..MaxSeqLen]

\* Entries of x: two values tell a pool over all positions from a pool over some.
XVals == {0, 1}

Inputs == UNION {[1..n -> XVals] : n \in 0..(MaxSeqLen + 1)}

RECURSIVE SumOver(_, _)
SumOver(t, idx) ==
    IF idx = {} THEN 0
    ELSE LET i == CHOOSE j \in idx : TRUE IN t[i] + SumOver(t, idx \ {i})

\* masked_mean(t, dim = 1, mask): the sum and the count of the entries the
\* mask keeps (the mean is their quotient).
masked_mean(t, bits) ==
    LET kept == {i \in 1..Len(t) : bits[i]} IN <<SumOver(t, kept), Cardinality(kept)>>

\* A mutation of lines 154-155: positions past the table are dropped.
PosEmbTruncating(c, n) ==
    [ok |-> TRUE, rows |-> [i \in 1..(IF n > c.max_seq_len THEN c.max_seq_len ELSE n) |-> i - 1]]

\* lines 133, 154-155: self.pos_emb(torch.arange(n)) with
\* pos_emb = nn.Embedding(max_seq_len, dim): one row per index 0 .. n-1, and
\* an index outside 0 .. max_seq_len-1 raises.
PosEmb(c, n) ==
    IF \E i \in 0..(n - 1) : i >= c.max_seq_len
    THEN [ok |-> FALSE, rows |-> <<>>]
    ELSE [ok |-> TRUE, rows |-> [i \in 1..n |-> i - 1]]

\* line 162: the mask handed to masked_mean.
MeanPoolMask(t, m) == Repeat(TRUE, Len(t))

LatentRow(kind, idx, pooled) ==
    [kind |-> kind, idx |-> idx, pooled |-> pooled, seen |-> {}, ffs |-> 0]

\* A mutation of line 164: the mean-pooled latents replace the learned ones.
InitialLatentsReplacing(c, pooled) ==
    IF c.num_latents_mean_pooled > 0
    THEN [i \in 1..c.num_latents_mean_pooled |-> LatentRow("meanpooled", i, pooled)]
    ELSE [i \in 1..c.num_latents |-> LatentRow("learned", i, <<0, 0>>)]

\* lines 159-164: self.latents broadcast over the batch, and the latents made
\* from the mean-pooled sequence in front of them when that branch exists.
InitialLatents(c, pooled) ==
    LET learned == [i \in 1..c.num_latents |-> LatentRow("learned", i, <<0, 0>>)] IN
    IF c.num_latents_mean_pooled > 0
    THEN [i \in 1..c.num_latents_mean_pooled |-> LatentRow("meanpooled", i, pooled)]
             \o learned
    ELSE learned

\* ff(latents) + latents: the feed-forward block acts on each row alone.
FeedForward(lat) == [i \in 1..Len(lat) |-> [lat[i] EXCEPT !.ffs = @ + 1]]

\* attn(x_with_pos, latents, mask = mask) + latents, line 167
AddAttention(out, lat) ==
    [i \in 1..Len(lat) |-> [lat[i] EXCEPT !.seen = @ \cup out[i]]]

RIdle ==
    /\ x = <<>>
    /\ mask = NoMask
    /\ rpc = "idle"
    /\ x_with_pos = <<>>
    /\ meanpooled_seq = <<0, 0>>
    /\ latents = <<>>
    /\ layer = 0
    /\ attn_kv = <<>>
    /\ attn_mask = NoMask
    /\ rerror = None

RInit == cfg \in Configs /\ RIdle

\* forward(x, mask) is called.
Forward(t, m) ==
    /\ rpc = "idle"
    /\ x' = t
    /\ mask' = m
    /\ rpc' = "pos_emb"
    /\ UNCHANGED <<cfg, x_with_pos, meanpooled_seq, latents, layer, attn_kv,
                   attn_mask, rerror, wvars, gvars, avars>>

\* lines 154-157
AddPosEmb ==
    /\ rpc = "pos_emb"
    /\ LET pe == PosEmb(cfg, Len(x)) IN
       IF ~pe.ok
       THEN /\ rerror' = "IndexError"
            /\ rpc' = "error"
            /\ UNCHANGED x_with_pos
       ELSE /\ x_with_pos' = [i \in 1..Len(pe.rows) |-> [pos |-> pe.rows[i], val |-> x[i]]]
            /\ rpc' = "latents"
            /\ UNCHANGED rerror
    /\ UNCHANGED <<cfg, x, mask, meanpooled_seq, latents, layer, attn_kv,
                   attn_mask, wvars, gvars, avars>>

\* lines 159-164
MakeLatents ==
    /\ rpc = "latents"
    /\ LET pooled == IF cfg.num_latents_mean_pooled > 0
                     THEN masked_mean(x, MeanPoolMask(x, mask))
                     ELSE <<0, 0>>
       IN /\ meanpooled_seq' = pooled
          /\ latents' = InitialLatents(cfg, pooled)
    /\ rpc' = "layers"
    /\ UNCHANGED <<cfg, x, mask, x_with_pos, layer, attn_kv, attn_mask, rerror,
                   wvars, gvars, avars>>

\* lines 166-168: one pass of the loop body
RefineLayer ==
    /\ rpc = "layers"
    /\ layer < cfg.depth
    /\ LET a == PerceiverAttentionForward(x_with_pos, latents, mask) IN
       /\ attn_kv' = a.kv_input
       /\ attn_mask' = a.mask
       /\ latents' = FeedForward(AddAttention(a.out, latents))
    /\ layer' = layer + 1
    /\ UNCHANGED <<cfg, x, mask, rpc, x_with_pos, meanpooled_seq, rerror,
                   wvars, gvars, avars>>

\* line 170
ReturnLatents ==
    /\ rpc = "layers"
    /\ layer = cfg.depth
    /\ rpc' = "returned"
    /\ UNCHANGED <<cfg, x, mask, x_with_pos, meanpooled_seq, latents, layer,
                   attn_kv, attn_mask, rerror, wvars, gvars, avars>>

RConst == cfg = [num_latents |-> 1, num_latents_mean_pooled |-> 0, depth |-> 0,
                 max_seq_len |-> 1] /\ RIdle

(***************************************************************************)
(* Attention.forward, lines 202-241.                                       *)
(***************************************************************************)
NoContext == [given |-> FALSE, len |-> 0]

Contexts == {NoContext} \cup {[given |-> TRUE, len |-> n] : n \in 0..MaxKv}

\* line 213: kv_input = default(context, x), by the origin of each row.
AttentionKvInput(nq, ctx) ==
    IF ctx.given THEN [j \in 1..ctx.len |-> <<"context", j>>]
    ELSE [j \in 1..nq |-> <<"x", j>>]

\* A mutation of line 221: the null keys appended after the real keys.
AttentionKeysNullLast(kv, nnull) ==
    IF nnull > 0 THEN kv \o [i \in 1..nnull |-> <<"null", i>>] ELSE kv

\* lines 219-221: k = torch.cat((null_k, k), dim = -2)
AttentionKeys(kv, nnull) ==
    IF nnull > 0 THEN [i \in 1..nnull |-> <<"null", i>>] \o kv ELSE kv

\* lines 231-232: mask = F.pad(mask, (self.num_null_kv, 0), value = True)
AttentionPadMask(m, nnull) ==
    IF m.given THEN [given |-> TRUE, bits |-> FPad(m.bits, nnull, 0)] ELSE NoMask

AIdle ==
    /\ a_pc = "idle"
    /\ a_nq = 1
    /\ a_context = NoContext
    /\ a_mask = NoMask
    /\ a_k = <<>>
    /\ a_padded = NoMask
    /\ a_attn = {}

AInit == num_null_kv \in 0..MaxNullKv /\ AIdle

AConst == num_null_kv = 0 /\ AIdle

\* One call of forward(x, context, mask); the mask has one entry per row of kv_input.
AttentionForward(nq, ctx, m) ==
    /\ a_pc = "idle"
    /\ LET kv == AttentionKvInput(nq, ctx)
           k == AttentionKeys(kv, num_null_kv)
           padded == AttentionPadMask(m, num_null_kv)
       IN /\ a_k' = k
          /\ a_padded' = padded
          /\ a_attn' = SoftmaxSupport(Len(k), MaskedFill(padded))
    /\ a_nq' = nq
    /\ a_context' = ctx
    /\ a_mask' = m
    /\ a_pc' = "done"
    /\ UNCHANGED <<num_null_kv, wvars, gvars, rvars>>

(***************************************************************************)
(* Specifications.                                                         *)
(***************************************************************************)
\* Wrapping callables.
Init == WInit /\ GIdle /\ RConst /\ AConst

Next ==
    \E f \in FnSigs, cs \in Scales, key \in KeyNames : Wrap(f, cs, key)

Spec == Init /\ [][Next]_vars

\* Invocations of a guided function: the body of inner for every closure
\* (fn, cond_scale, cond_drop_prob_keyname) it can be defined over.  The
\* closure is taken as built; Spec above is where building it is checked.
\* Scales are the float values -1., 0., 1., ...
InitGuided == WInit /\ GInit /\ RConst /\ AConst

NextGuided ==
    \/ \E kw \in KwargSets(keyname) : Invoke(kw)
    \/ CallKeep
    \/ ShortCircuit
    \/ CallDrop
    \/ ReturnCombined

SpecGuided == InitGuided /\ [][NextGuided]_vars

\* Forward passes of a resampler, for every configuration and every input
\* of at most one position more than max_seq_len.  The constructor is taken
\* to have sized the tables: cfg is what forward reads of it.
InitResampler == WInit /\ GIdle /\ RInit /\ AConst

NextResampler ==
    \/ \E t \in Inputs : \E m \in Masks(Len(t)) :
           Len(t) <= cfg.max_seq_len + 1 /\ Forward(t, m)
    \/ AddPosEmb
    \/ MakeLatents
    \/ RefineLayer
    \/ ReturnLatents

SpecResampler == InitResampler /\ [][NextResampler]_vars

\* Forward passes of the attention module.
InitAttention == WInit /\ GIdle /\ RConst /\ AInit

NextAttention ==
    \E nq \in 1..MaxQ, ctx \in Contexts :
        \E m \in Masks(Len(AttentionKvInput(nq, ctx))) : AttentionForward(nq, ctx, m)

SpecAttention == InitAttention /\ [][NextAttention]_vars

(***************************************************************************)
(* Properties of the guidance decorator.                                   *)
(***************************************************************************)
CallRaised(i) == fn[calls[i][keyname]].raises

\* C1: with cond_scale <= 1 an invocation calls fn exactly once, with the
\* drop probability forced to 0 whatever the caller passed, never with 1, and
\* returns the value of that call unchanged.
C1_ShortCircuitCallsOnce ==
    cond_scale <= 1 =>
        /\ Len(calls) <= 1
        /\ \A i \in 1..Len(calls) :
               /\ calls[i][keyname] = 0
               /\ \A k \in DOMAIN kwargs : k # keyname => calls[i][k] = kwargs[k]
        /\ pc \in {"branch", "returned", "raised"} => Len(calls) = 1
        /\ pc # "combine"
        /\ pc = "returned" => result = fn[0].value /\ ~fn[0].raises

C1_Witness ==
    /\ pc = "returned"
    /\ cond_scale = 1
    /\ invocations = 2
    /\ keyname \in DOMAIN kwargs
    /\ kwargs[keyname] = 1
    /\ Len(calls) = 1
    /\ fn[0].value = 2
    /\ fn[1].value = 1
    /\ result = 2

\* C2: with cond_scale > 1 an invocation calls fn exactly twice, first with
\* the drop probability forced to 0 and then with it forced to 1, and returns
\* null_logits + (logits - null_logits) * cond_scale of the two values.
C2_GuidedCallsTwiceAndExtrapolates ==
    cond_scale > 1 =>
        /\ Len(calls) <= 2
        /\ Len(calls) >= 1 => calls[1][keyname] = 0
        /\ Len(calls) >= 2 => calls[2][keyname] = 1
        /\ pc \in {"combine", "returned"} =>
               /\ Len(calls) = 2
               /\ logits = fn[0].value
               /\ null_logits = fn[1].value
        /\ pc = "returned" =>
               result = fn[1].value + (fn[0].value - fn[1].value) * cond_scale

C2_Witness ==
    /\ pc = "returned"
    /\ cond_scale = 3
    /\ Len(calls) = 2
    /\ fn[0].value = 2
    /\ fn[1].value = 1
    /\ result = 4

\* C9: an exception of the wrapped function leaves inner as it was raised:
\* the call that raised is the last call of the invocation, inner returns
\* no value, and the exception is the invocation's outcome.
C9_ErrorsPropagate ==
    /\ \A i \in 1..Len(calls) :
           CallRaised(i) =>
               /\ i = Len(calls)
               /\ pc = "raised"
               /\ raised = fn[calls[i][keyname]].error
               /\ result = 0
    /\ pc = "raised" => Len(calls) >= 1 /\ CallRaised(Len(calls))
    /\ (pc = "raised" /\ fn[0].raises) => Len(calls) = 1
    /\ pc = "returned" => raised = None

C9_Witness ==
    /\ pc = "raised"
    /\ cond_scale = 2
    /\ Len(calls) = 2
    /\ ~fn[0].raises
    /\ fn[1].raises
    /\ raised = "FnError"

C9_WitnessFirstCall ==
    /\ pc = "raised"
    /\ cond_scale = 2
    /\ Len(calls) = 1
    /\ fn[0].raises

\* C3: wrapping a callable whose parameters do not include the reserved
\* name raises at wrap time: no guided function is returned and the callable
\* has not been called.
C3_MissingParameterRaisesAtWrapTime ==
    (wpc = "done" /\ ~InSeq(wkey, wfn.args)) =>
        /\ woutcome.status = "raised"
        /\ woutcome.error # None
        /\ woutcome.inner = {}
        /\ wfncalls = 0

C3_Witness ==
    /\ wpc = "done"
    /\ wfn.args = <<"x", "cond_drop_prob">>
    /\ wkey = COND_DROP_KEY_NAME
    /\ woutcome.status = "raised"

\* C4: wrapping a callable whose parameters include the reserved name
\* succeeds: no error is raised, the callable is not called, and a guided
\* function is returned.
C4_DeclaredParameterWraps ==
    (wpc = "done" /\ InSeq(wkey, wfn.args)) =>
        /\ woutcome.status = "returned"
        /\ woutcome.error = None
        /\ woutcome.inner # {}
        /\ wfncalls = 0

(***************************************************************************)
(* Properties of the resampler.                                            *)
(***************************************************************************)
Started == rpc \in {"layers", "returned"}

AllValid(t) == [i \in 1..Len(t) |-> TRUE]

\* C5: from the construction of the latent set to the return, through every
\* refinement layer, the latent set has num_latents_mean_pooled + num_latents
\* rows, whatever the length of the input sequence.
C5_LatentCountFixed ==
    Started => Len(latents) = cfg.num_latents_mean_pooled + cfg.num_latents

C5_Witness ==
    /\ rpc = "returned"
    /\ cfg.depth = 2
    /\ layer = 2
    /\ cfg.num_latents = 2
    /\ cfg.num_latents_mean_pooled = 2
    /\ Len(x) = 2
    /\ Len(latents) = 4
    /\ latents[1].kind = "meanpooled"
    /\ latents[3].kind = "learned"

\* C6: with mean-pooled latents configured, the mean pool of x is taken over
\* the positions the mask marks valid when a mask is given, and over all
\* positions when none is.
C6_MeanPoolRespectsMask ==
    (Started /\ cfg.num_latents_mean_pooled > 0) =>
        meanpooled_seq = masked_mean(x, IF mask.given THEN mask.bits ELSE AllValid(x))

\* C8: a sequence longer than max_seq_len ends forward in an error, with no
\* latent set built or returned, and is never truncated; every sequence of
\* length at most max_seq_len is accepted with all of its positions.
C8_TooLongSequenceRaises ==
    rpc \notin {"idle", "pos_emb"} =>
        /\ Len(x) > cfg.max_seq_len =>
               /\ rpc = "error"
               /\ rerror # None
               /\ latents = <<>>
               /\ x_with_pos = <<>>
        /\ Len(x) <= cfg.max_seq_len =>
               /\ rpc # "error"
               /\ rerror = None
               /\ Len(x_with_pos) = Len(x)
               /\ \A i \in 1..Len(x) : x_with_pos[i] = [pos |-> i - 1, val |-> x[i]]

C8_Witness ==
    /\ rpc = "error"
    /\ cfg.max_seq_len = 2
    /\ Len(x) = 3
    /\ rerror = "IndexError"

C8_WitnessAccepted ==
    /\ rpc = "returned"
    /\ cfg.max_seq_len = 2
    /\ Len(x) = 2

\* C10: in every refinement layer the keys and values are the rows of the
\* position-augmented sequence followed by the current latents, the mask is
\* extended with true for the latents in that order, a sequence key is
\* suppressed exactly when its mask entry is false, and no latent key is.
C10_LayerKeysAndMask ==
    (Started /\ layer > 0) =>
        /\ Len(attn_kv) = Len(x) + Len(latents)
        /\ \A j \in 1..Len(x) : attn_kv[j] = <<"seq", j - 1>>
        /\ \A i \in 1..Len(latents) : attn_kv[Len(x) + i] = <<"latent", i>>
        /\ attn_mask.given = mask.given
        /\ mask.given =>
               /\ Len(attn_mask.bits) = Len(attn_kv)
               /\ \A j \in 1..Len(x) : attn_mask.bits[j] = mask.bits[j]
               /\ \A i \in 1..Len(latents) : attn_mask.bits[Len(x) + i]
        /\ \A i \in 1..Len(latents) :
               /\ \A j \in 1..Len(x) :
                      (<<"seq", j - 1>> \notin latents[i].seen)
                          <=> (mask.given /\ ~mask.bits[j])
               /\ \A k \in 1..Len(latents) : <<"latent", k>> \in latents[i].seen

C10_Witness ==
    /\ rpc = "returned"
    /\ layer = 2
    /\ mask.given
    /\ mask.bits = <<FALSE, TRUE>>
    /\ Len(latents) = 3
    /\ latents[1].seen = {<<"seq", 1>>, <<"latent", 1>>, <<"latent", 2>>, <<"latent", 3>>}

(***************************************************************************)
(* Properties of the attention module.                                     *)
(***************************************************************************)
RealKeys == Len(AttentionKvInput(a_nq, a_context))

\* C7: with num_null_kv > 0 the null slots are the first num_null_kv keys
\* and always keep weight, real key j loses its weight exactly when mask[j] is
\* false, and so some key keeps weight under every mask.
C7_NullSlotsNeverMasked ==
    (a_pc = "done" /\ num_null_kv > 0) =>
        /\ Len(a_k) = num_null_kv + RealKeys
        /\ \A i \in 1..num_null_kv : a_k[i] = <<"null", i>> /\ i \in a_attn
        /\ \A j \in 1..RealKeys :
               /\ a_k[num_null_kv + j][1] # "null"
               /\ (num_null_kv + j \notin a_attn) <=> (a_mask.given /\ ~a_mask.bits[j])
        /\ a_attn # {}

C7_Witness ==
    /\ a_pc = "done"
    /\ num_null_kv = 2
    /\ a_mask.given
    /\ a_mask.bits = <<FALSE, FALSE, FALSE>>
    /\ a_attn = {1, 2}

====
